---- MODULE Spec2Model ----
(***************************************************************************)
(* Deadbugs: KER scorer and method registry (crates/deadbugs_core),        *)
(* pest-risk simulator (deadbugs-pest-kernel) and plan guard               *)
(* (deadbugs-guard).                                                       *)
(*                                                                         *)
(* f64 values of the scorer and the simulator are modelled as exact        *)
(* rationals [n |-> numerator, d |-> denominator > 0] in lowest terms, so  *)
(* that every comparison of the code (>=, >, <=, partial_cmp) is decided   *)
(* on the value the formula denotes.  The guard's residuals are modelled   *)
(* as integers in units of 1e-9, the guard's tolerance.                    *)
(***************************************************************************)
EXTENDS Integers, Sequences, FiniteSets, TLC

(* ---------------------------------------------------------------------- *)
(* f64 arithmetic on exact rationals                                       *)
(* ---------------------------------------------------------------------- *)
Abs(x) == IF x < 0 THEN -x ELSE x

RECURSIVE GCD(_, _)
GCD(a, b) == IF b = 0 THEN a ELSE GCD(b, a % b)

Rat(n, d) ==
    LET g == GCD(Abs(n), d) IN [n |-> n \div g, d |-> d \div g]

RAdd(a, b) ==
    LET g == GCD(a.d, b.d)
    IN Rat(a.n * (b.d \div g) + b.n * (a.d \div g), (a.d \div g) * b.d)
RNeg(a) == [n |-> -(a.n), d |-> a.d]
RSub(a, b) == RAdd(a, RNeg(b))
RMul(a, b) ==
    LET g1 == GCD(Abs(a.n), b.d)
        g2 == GCD(Abs(b.n), a.d)
    IN [n |-> (a.n \div g1) * (b.n \div g2),
        d |-> (a.d \div g2) * (b.d \div g1)]
RDiv(a, b) ==
    IF b.n > 0 THEN RMul(a, [n |-> b.d, d |-> b.n])
               ELSE RMul(a, [n |-> -(b.d), d |-> -(b.n)])
RLt(a, b) ==
    LET g == GCD(a.d, b.d) IN a.n * (b.d \div g) < b.n * (a.d \div g)
RLe(a, b) ==
    LET g == GCD(a.d, b.d) IN a.n * (b.d \div g) <= b.n * (a.d \div g)
RGt(a, b) == RLt(b, a)
RGe(a, b) == RLe(b, a)
RMax(a, b) == IF RLt(a, b) THEN b ELSE a
RMin(a, b) == IF RLt(b, a) THEN b ELSE a
Zero == Rat(0, 1)
One == Rat(1, 1)
(* usize -> f64 *)
AsF64(k) == Rat(k, 1)

(* ---------------------------------------------------------------------- *)
(* crates/deadbugs_core/src/ker.rs                                         *)
(* ---------------------------------------------------------------------- *)
ControlFamily ==
    {"Exclusion", "Sanitation", "HabitatChange", "PredatorSupport",
     "MechanicalKill", "LiveCapture", "MonitoringOnly"}
EffectivenessBand == {"Low", "Medium", "High"}

clamp01(x) == IF RLt(x, Zero) THEN Zero ELSE IF RGt(x, One) THEN One ELSE x

(* number of logs of the slice for which the test holds; flags[i] is the
   outcome of the test on the i-th log *)
CountLogs(flags) == Cardinality({i \in DOMAIN flags : flags[i]})

RECURSIVE waste_extra(_)
waste_extra(ls) ==
    IF ls = <<>> THEN Zero
    ELSE LET w == Head(ls).side_effects.waste_burden
             step == IF w = "high" THEN Rat(2, 10)
                     ELSE IF w = "moderate" THEN Rat(1, 10)
                     ELSE Zero
         IN RAdd(step, waste_extra(Tail(ls)))

RiskCoordinatesDefault ==
    [r_pets |-> Zero, r_wildlife |-> Zero, r_waste |-> Zero,
     r_air |-> Zero, r_human_injury |-> Zero]

(* the early return for an empty slice keeps the waste baseline of the
   method's material flags *)
compute_risk_coordinates_waste_baseline(ls, method) ==
    IF ls = <<>>
    THEN [RiskCoordinatesDefault EXCEPT
              !.r_waste = IF method.uses_disposable_electronics
                             \/ method.generates_persistent_plastic
                          THEN Rat(7, 10) ELSE Rat(2, 10)]
    ELSE
    LET n == AsF64(Len(ls))
        pet_events ==
            AsF64(CountLogs([i \in 1..Len(ls) |-> ls[i].side_effects.pet_incident]))
        wildlife_events ==
            AsF64(CountLogs([i \in 1..Len(ls) |-> ls[i].side_effects.wildlife_incident]))
        human_injury_events ==
            AsF64(CountLogs([i \in 1..Len(ls) |-> ls[i].side_effects.human_injury]))
        air_events ==
            AsF64(CountLogs([i \in 1..Len(ls) |-> ls[i].side_effects.air_quality_concern]))
        base_waste ==
            IF method.uses_disposable_electronics
               \/ method.generates_persistent_plastic
            THEN Rat(7, 10) ELSE Rat(2, 10)
    IN [r_pets |-> clamp01(RDiv(pet_events, n)),
        r_wildlife |-> clamp01(RDiv(wildlife_events, n)),
        r_waste |-> clamp01(RAdd(base_waste, RDiv(waste_extra(ls), n))),
        r_air |-> clamp01(RDiv(air_events, n)),
        r_human_injury |-> clamp01(RDiv(human_injury_events, n))]

compute_risk_coordinates(ls, method) ==
    IF ls = <<>> THEN RiskCoordinatesDefault
    ELSE
    LET n == AsF64(Len(ls))
        pet_events ==
            AsF64(CountLogs([i \in 1..Len(ls) |-> ls[i].side_effects.pet_incident]))
        wildlife_events ==
            AsF64(CountLogs([i \in 1..Len(ls) |-> ls[i].side_effects.wildlife_incident]))
        human_injury_events ==
            AsF64(CountLogs([i \in 1..Len(ls) |-> ls[i].side_effects.human_injury]))
        air_events ==
            AsF64(CountLogs([i \in 1..Len(ls) |-> ls[i].side_effects.air_quality_concern]))
        base_waste ==
            IF method.uses_disposable_electronics
               \/ method.generates_persistent_plastic
            THEN Rat(7, 10) ELSE Rat(2, 10)
    IN [r_pets |-> clamp01(RDiv(pet_events, n)),
        r_wildlife |-> clamp01(RDiv(wildlife_events, n)),
        r_waste |-> clamp01(RAdd(base_waste, RDiv(waste_extra(ls), n))),
        r_air |-> clamp01(RDiv(air_events, n)),
        r_human_injury |-> clamp01(RDiv(human_injury_events, n))]

compute_k(ls) ==
    IF ls = <<>> THEN Rat(1, 10)
    ELSE
    LET n == AsF64(Len(ls))
        high == AsF64(CountLogs([i \in 1..Len(ls) |-> ls[i].effectiveness = "High"]))
        med == AsF64(CountLogs([i \in 1..Len(ls) |-> ls[i].effectiveness = "Medium"]))
        low == AsF64(CountLogs([i \in 1..Len(ls) |-> ls[i].effectiveness = "Low"]))
        ph == RDiv(high, n)
        pm == RDiv(med, n)
        pl == RDiv(low, n)
        variability ==
            RAdd(RAdd(RMul(ph, RSub(One, ph)), RMul(pm, RSub(One, pm))),
                 RMul(pl, RSub(One, pl)))
        base == IF Len(ls) >= 20 THEN Rat(9, 10)
                ELSE IF Len(ls) >= 5 THEN Rat(7, 10)
                ELSE Rat(4, 10)
    IN clamp01(RMul(base, RSub(One, RMul(Rat(1, 2), variability))))

family_base(family) ==
    CASE family = "Exclusion" -> Rat(95, 100)
      [] family = "Sanitation" -> Rat(93, 100)
      [] family = "HabitatChange" -> Rat(90, 100)
      [] family = "PredatorSupport" -> Rat(88, 100)
      [] family = "MechanicalKill" -> Rat(80, 100)
      [] family = "LiveCapture" -> Rat(78, 100)
      [] family = "MonitoringOnly" -> Rat(70, 100)

compute_e(ls, method) ==
    LET base == family_base(method.family)
        p1 == IF method.uses_disposable_electronics
              THEN RAdd(Zero, Rat(15, 100)) ELSE Zero
        penalty == IF method.generates_persistent_plastic
                   THEN RAdd(p1, Rat(1, 10)) ELSE p1
    IN IF Len(ls) > 0
       THEN LET n == AsF64(Len(ls))
                high_or_med ==
                    AsF64(CountLogs([i \in 1..Len(ls) |-> ls[i].effectiveness \in {"High", "Medium"}]))
                success_frac == RDiv(high_or_med, n)
                eff_factor == RAdd(Rat(1, 2), RMul(Rat(1, 2), success_frac))
            IN clamp01(RSub(RMul(base, eff_factor), penalty))
       ELSE clamp01(RSub(base, penalty))

compute_r(coords) ==
    LET w_pets == Rat(3, 10)
        w_human == Rat(3, 10)
        w_wildlife == Rat(2, 10)
        w_waste == Rat(1, 10)
        w_air == Rat(1, 10)
    IN clamp01(
         RAdd(RAdd(RAdd(RAdd(RMul(w_pets, coords.r_pets),
                             RMul(w_human, coords.r_human_injury)),
                        RMul(w_wildlife, coords.r_wildlife)),
                   RMul(w_waste, coords.r_waste)),
              RMul(w_air, coords.r_air)))

(* the air corridor counted among the protected dimensions *)
hard_invariant_with_air(coords) ==
    \/ RGe(coords.r_pets, One)
    \/ RGe(coords.r_human_injury, One)
    \/ RGe(coords.r_wildlife, One)
    \/ RGe(coords.r_air, One)

(* ker.rs 186-188 *)
hard_invariant(coords) ==
    \/ RGe(coords.r_pets, One)
    \/ RGe(coords.r_human_injury, One)
    \/ RGe(coords.r_wildlife, One)

score_method(method, ls) ==
    LET coords == compute_risk_coordinates(ls, method)
    IN [k |-> compute_k(ls),
        e |-> compute_e(ls, method),
        r |-> compute_r(coords),
        coords |-> coords,
        hard_violation |-> hard_invariant(coords)]

(* ---------------------------------------------------------------------- *)
(* crates/deadbugs_core/src/query.rs                                       *)
(* ---------------------------------------------------------------------- *)
LocationType == {"Home", "Hospital", "Other"}
PestSpecies == {"X", "Y"}

MaxMethods == 2
MaxLogs == 2

(* arguments of add_method, add_log and of the two queries *)
MethodIds == {"a", "b"}
MethodInputs ==
    [id : MethodIds,
     family : {"Exclusion", "Sanitation", "MechanicalKill", "MonitoringOnly"},
     uses_disposable_electronics : {FALSE},
     generates_persistent_plastic : {FALSE}]
    \cup
    [id : MethodIds, family : {"Exclusion"},
     uses_disposable_electronics : {TRUE},
     generates_persistent_plastic : {FALSE}]
    \cup
    [id : MethodIds, family : {"MechanicalKill"},
     uses_disposable_electronics : {FALSE},
     generates_persistent_plastic : {TRUE}]
Benign ==
    [pet_incident |-> FALSE, wildlife_incident |-> FALSE, human_injury |-> FALSE,
     air_quality_concern |-> FALSE, waste_burden |-> "none"]
LogInputs ==
    {[method_id |-> i, context |-> [pest |-> p], effectiveness |-> "High",
      side_effects |-> Benign] : i \in MethodIds, p \in PestSpecies}
    \cup
    {[method_id |-> i, context |-> [pest |-> p], effectiveness |-> "Low",
      side_effects |-> [Benign EXCEPT !.human_injury = TRUE,
                                      !.waste_burden = "high"]] :
        i \in MethodIds, p \in PestSpecies}
MaxRInputs == {Rat(9, 50), Rat(1, 2)}

VARIABLES methods, logs, call, out, score, args, sim, gargs, verdict

regvars == <<methods, logs, call, out, score>>
simvars == <<args, sim>>
guardvars == <<gargs, verdict>>
vars == <<regvars, simvars, guardvars>>

NoCall == [op |-> "none", pest |-> "X", location |-> "Other", max_r |-> Zero]

new ==
    /\ methods = <<>>
    /\ logs = <<>>
    /\ call = NoCall
    /\ out = <<>>
    /\ score = <<>>

(* The registry is used by one synchronous caller: call.op = "none" while the
   caller is between calls, and a query's return value stays in out until
   the caller has taken it. *)
add_method(method) ==
    /\ call.op = "none"
    /\ Len(methods) < MaxMethods
    /\ methods' = Append(methods, method)
    /\ UNCHANGED <<logs, call, out, score, simvars, guardvars>>

add_log(log) ==
    /\ call.op = "none"
    /\ Len(logs) < MaxLogs
    /\ logs' = Append(logs, log)
    /\ UNCHANGED <<methods, call, out, score, simvars, guardvars>>

(* the filter on the method id alone: logs of every pest are handed on *)
logs_for_method_any_pest(ls, method_id, pest) ==
    SelectSeq(ls, LAMBDA l : l.method_id = method_id)

logs_for_method(ls, method_id, pest) ==
    SelectSeq(ls, LAMBDA l : l.method_id = method_id /\ l.context.pest = pest)

is_tier0(m) == m.family \in {"Exclusion", "Sanitation"}

(* query.rs 50-53: the family filter in front of the scoring *)
family_allowed(m) == m.family # "MonitoringOnly"

(* the uplift of E applied to every family *)
score_with_uplift_every_family(m, ls, pest) ==
    LET ker == score_method(m, logs_for_method(ls, m.id, pest))
    IN [method |-> m,
        ker |-> [ker EXCEPT !.e = RMin(RAdd(ker.e, Rat(5, 100)), One)]]

(* query.rs 54-64: score on the matching logs, tier-0 uplift of E *)
score_with_uplift(m, ls, pest) ==
    LET ker == score_method(m, logs_for_method(ls, m.id, pest))
    IN [method |-> m,
        ker |-> IF is_tier0(m)
                THEN [ker EXCEPT !.e = RMin(RAdd(ker.e, Rat(5, 100)), One)]
                ELSE ker]

(* risk_filter without the test against the ceiling max_r *)
risk_filter_no_ceiling(entry, location, max_r) ==
    IF entry.ker.hard_violation
    THEN FALSE
    ELSE IF location \in {"Home", "Hospital"}
         THEN ~(entry.method.uses_disposable_electronics
                \/ entry.method.generates_persistent_plastic)
         ELSE TRUE

(* query.rs 65-79: risk ceiling, hard invariant, sensitive locations *)
risk_filter(entry, location, max_r) ==
    IF entry.ker.hard_violation \/ RGt(entry.ker.r, max_r)
    THEN FALSE
    ELSE IF location \in {"Home", "Hospital"}
         THEN ~(entry.method.uses_disposable_electronics
                \/ entry.method.generates_persistent_plastic)
         ELSE TRUE

(* every score is a finite number (all divisors are log counts >= 1), so
   partial_cmp never yields None and unwrap_or(Equal) is never taken *)
partial_cmp(x, y) ==
    IF RLt(x, y) THEN "Less" ELSE IF RGt(x, y) THEN "Greater" ELSE "Equal"

(* the comparator of both sort_by calls: K high -> low, then E high -> low *)
ker_cmp(a, b) ==
    LET c == partial_cmp(b.k, a.k)
    IN IF c # "Equal" THEN c ELSE partial_cmp(b.e, a.e)

(* slice::sort_by is a stable sort: x goes in front of the first element it
   is strictly Less than *)
(* x goes in front of the first element it is not Greater than *)
RECURSIVE sort_insert_unstable(_, _)
sort_insert_unstable(x, s) ==
    IF s = <<>> THEN <<x>>
    ELSE IF ker_cmp(x.ker, Head(s).ker) # "Greater" THEN <<x>> \o s
    ELSE <<Head(s)>> \o sort_insert_unstable(x, Tail(s))

RECURSIVE sort_insert(_, _)
sort_insert(x, s) ==
    IF s = <<>> THEN <<x>>
    ELSE IF ker_cmp(x.ker, Head(s).ker) = "Less" THEN <<x>> \o s
    ELSE <<Head(s)>> \o sort_insert(x, Tail(s))

RECURSIVE sort_by(_)
sort_by(s) ==
    IF s = <<>> THEN <<>>
    ELSE sort_insert(s[Len(s)], sort_by(SubSeq(s, 1, Len(s) - 1)))

query_safest_methods(ms, ls, pest, location, max_r) ==
    LET considered == SelectSeq(ms, family_allowed)
        scored == [i \in 1..Len(considered) |->
                      score_with_uplift(considered[i], ls, pest)]
        kept == SelectSeq(scored, LAMBDA en : risk_filter(en, location, max_r))
    IN sort_by(kept)

(* tier0_keeps with the ceiling of query_safest_methods' callers, 0.5 *)
tier0_keeps_wrong_ceiling(m, ker) ==
    /\ is_tier0(m)
    /\ ~ker.hard_violation /\ RLe(ker.r, Rat(5, 10))

(* query.rs 104-112: one iteration of the tier-0 loop decides on a method *)
tier0_keeps(m, ker) ==
    /\ is_tier0(m)
    /\ ~ker.hard_violation /\ RLe(ker.r, Rat(2, 10))

tier0_exclusion_hygiene(ms, ls, pest, location) ==
    LET scored == [i \in 1..Len(ms) |->
                    [method |-> ms[i],
                     ker |-> score_method(ms[i],
                                 logs_for_method(ls, ms[i].id, pest))]]
        kept == SelectSeq(scored, LAMBDA en : tier0_keeps(en.method, en.ker))
    IN sort_by(kept)

QuerySafest(pest, location, max_r) ==
    /\ call.op = "none"
    /\ call' = [op |-> "query_safest_methods", pest |-> pest,
                location |-> location, max_r |-> max_r]
    /\ out' = query_safest_methods(methods, logs, pest, location, max_r)
    /\ UNCHANGED <<methods, logs, score, simvars, guardvars>>

Tier0(pest, location) ==
    /\ call.op = "none"
    /\ call' = [op |-> "tier0_exclusion_hygiene", pest |-> pest,
                location |-> location, max_r |-> Zero]
    /\ out' = tier0_exclusion_hygiene(methods, logs, pest, location)
    /\ UNCHANGED <<methods, logs, score, simvars, guardvars>>

Return ==
    /\ call.op # "none"
    /\ call' = NoCall
    /\ out' = <<>>
    /\ score' = <<>>
    /\ UNCHANGED <<methods, logs, simvars, guardvars>>

(* the simulator and the guard are not running *)
SimIdle == args = <<>> /\ sim = <<>>
GuardIdle == gargs = <<>> /\ verdict = <<>>

Init == new /\ SimIdle /\ GuardIdle

Next ==
    \/ \E m \in MethodInputs : add_method(m)
    \/ \E l \in LogInputs : add_log(l)
    \/ \E p \in PestSpecies, loc \in LocationType, r \in MaxRInputs :
          QuerySafest(p, loc, r)
    \/ \E p \in PestSpecies, loc \in LocationType : Tier0(p, loc)
    \/ Return

Spec == Init /\ [][Next]_vars

(* ---------------------------------------------------------------------- *)
(* Properties of the registry queries                                      *)
(* ---------------------------------------------------------------------- *)
REq(a, b) == a = b

(* the score of a registered method on its own logs for the queried pest *)
OwnScore(m, pest) == score_method(m, logs_for_method(logs, m.id, pest))

HasWasteFlag(m) ==
    m.uses_disposable_electronics \/ m.generates_persistent_plastic

(* C1: no entry returned by query_safest_methods has hard_violation set or
   R above max_r (in the score it carries and in the score of its method on
   the matching logs), and for location Home or Hospital no returned method
   uses disposable electronics or generates persistent plastic. *)
C1_SafestExcludesUnsafe ==
    call.op = "query_safest_methods" =>
        \A i \in 1..Len(out) :
            /\ ~out[i].ker.hard_violation
            /\ ~RGt(out[i].ker.r, call.max_r)
            /\ ~OwnScore(out[i].method, call.pest).hard_violation
            /\ ~RGt(OwnScore(out[i].method, call.pest).r, call.max_r)
            /\ call.location \in {"Home", "Hospital"}
                   => ~HasWasteFlag(out[i].method)

(* a Hospital query returns one method and leaves out a registered method
   with a waste flag whose score has no hard violation and is within max_r *)
C1_Witness ==
    /\ call.op = "query_safest_methods"
    /\ call.location = "Hospital"
    /\ Len(out) = 1
    /\ \E j \in 1..Len(methods) :
          /\ family_allowed(methods[j])
          /\ HasWasteFlag(methods[j])
          /\ ~OwnScore(methods[j], call.pest).hard_violation
          /\ RLe(OwnScore(methods[j], call.pest).r, call.max_r)

(* C2: tier0_exclusion_hygiene returns only Exclusion/Sanitation methods with
   no hard violation and R <= 0.2, and returns every registered method that
   satisfies these conditions (as many entries as there are such methods). *)
Tier0Qualifies(m, pest) ==
    /\ m.family \in {"Exclusion", "Sanitation"}
    /\ ~OwnScore(m, pest).hard_violation
    /\ RLe(OwnScore(m, pest).r, Rat(2, 10))

C2_Tier0ExactlyLowRisk ==
    call.op = "tier0_exclusion_hygiene" =>
        /\ \A i \in 1..Len(out) :
              /\ out[i].method.family \in {"Exclusion", "Sanitation"}
              /\ ~out[i].ker.hard_violation
              /\ RLe(out[i].ker.r, Rat(2, 10))
              /\ out[i].ker = OwnScore(out[i].method, call.pest)
        /\ \A j \in 1..Len(methods) :
              Tier0Qualifies(methods[j], call.pest)
                  => \E i \in 1..Len(out) : out[i].method = methods[j]
        /\ Len(out) =
             Cardinality({j \in 1..Len(methods) :
                             Tier0Qualifies(methods[j], call.pest)})

(* one tier-0 method is returned, another tier-0 method is held back for its
   R only (0.2 < R, no hard violation) *)
C2_Witness ==
    /\ call.op = "tier0_exclusion_hygiene"
    /\ Len(out) = 1
    /\ \E j \in 1..Len(methods) :
          /\ methods[j].family \in {"Exclusion", "Sanitation"}
          /\ ~OwnScore(methods[j], call.pest).hard_violation
          /\ RGt(OwnScore(methods[j], call.pest).r, Rat(2, 10))

(* C3: both result lists are ordered by K descending, then by the carried E
   descending, and entries equal in K and E keep the order in which their
   methods were added to the registry: pos[i] is the place in the registry
   of the method of the i-th entry. *)
C3_OrderedKThenEThenInput ==
    call.op \in {"query_safest_methods", "tier0_exclusion_hygiene"} =>
        \E pos \in [1..Len(out) -> 1..Len(methods)] :
            /\ \A i \in 1..Len(out) : methods[pos[i]] = out[i].method
            /\ \A i, j \in 1..Len(out) :
                  i < j =>
                    /\ pos[i] # pos[j]
                    /\ \/ RGt(out[i].ker.k, out[j].ker.k)
                       \/ /\ REq(out[i].ker.k, out[j].ker.k)
                          /\ RGt(out[i].ker.e, out[j].ker.e)
                       \/ /\ REq(out[i].ker.k, out[j].ker.k)
                          /\ REq(out[i].ker.e, out[j].ker.e)
                          /\ pos[i] < pos[j]

(* two tier-0 methods with identical K: the one added second has the higher
   E and is returned first *)
C3_Witness ==
    /\ call.op = "tier0_exclusion_hygiene"
    /\ Len(out) = 2
    /\ REq(out[1].ker.k, out[2].ker.k)
    /\ RGt(out[1].ker.e, out[2].ker.e)
    /\ out[1].method = methods[2]
    /\ out[2].method = methods[1]

(* C12: every entry returned by query_safest_methods carries
   E = min(1.0, e0 + 0.05) if its method's family is Exclusion or Sanitation
   and E = e0 otherwise, every entry returned by tier0_exclusion_hygiene
   carries E = e0, where e0 is the E of score_method for the method on its
   matching logs; K, R, the five risk coordinates and hard_violation of the
   entry are those of score_method in both queries. *)
C12_UpliftOnlyInSafestQuery ==
    call.op \in {"query_safest_methods", "tier0_exclusion_hygiene"} =>
        \A i \in 1..Len(out) :
            LET own == OwnScore(out[i].method, call.pest)
                uplifted == /\ call.op = "query_safest_methods"
                            /\ out[i].method.family \in {"Exclusion", "Sanitation"}
            IN /\ out[i].ker.e = IF uplifted
                                 THEN RMin(One, RAdd(own.e, Rat(5, 100)))
                                 ELSE own.e
               /\ out[i].ker.k = own.k
               /\ out[i].ker.r = own.r
               /\ out[i].ker.coords = own.coords
               /\ out[i].ker.hard_violation = own.hard_violation

(* query_safest_methods(X, Home, 0.5) returns a Sanitation method without
   logs with E = 0.98 (0.93 uplifted) next to a MechanicalKill method that
   carries the E of its own score *)
C12_Witness ==
    /\ call.op = "query_safest_methods"
    /\ call.pest = "X" /\ call.location = "Home" /\ call.max_r = Rat(1, 2)
    /\ Len(out) = 2
    /\ \E i, j \in 1..2 :
          /\ out[i].method.family = "Sanitation"
          /\ logs_for_method(logs, out[i].method.id, "X") = <<>>
          /\ OwnScore(out[i].method, "X").e = Rat(93, 100)
          /\ out[i].ker.e = Rat(98, 100)
          /\ out[j].method.family = "MechanicalKill"
          /\ out[j].ker.e = OwnScore(out[j].method, "X").e

(* the ids of the registered methods *)
RegisteredIds == {methods[i].id : i \in 1..Len(methods)}

(* the logs of a registered method and of the pest *)
MatchingLogs(pest) ==
    SelectSeq(logs, LAMBDA l : l.method_id \in RegisteredIds
                                /\ l.context.pest = pest)

(* a step that appends one log to the registry *)
AppendsLog ==
    /\ methods' = methods
    /\ Len(logs') = Len(logs) + 1
    /\ SubSeq(logs', 1, Len(logs)) = logs

(* C13: a method is scored only against the logs with its id and the queried
   pest.  Appending a log leaves the score of every method with another id,
   and of every method under another pest, as it was; appending a log whose
   method_id is the id of no registered method, or whose pest is not the
   queried one, leaves the result of both queries (entries, scores, order)
   as it was, for every location and ceiling; what a query returns is what
   it returns on the matching logs alone; and a query leaves the registry's
   methods and logs as they were. *)
C13_OnlyMatchingLogsCount ==
    [][/\ AppendsLog =>
            LET l == logs'[Len(logs')] IN
            \A p \in PestSpecies :
                /\ \A i \in 1..Len(methods) :
                      (methods[i].id # l.method_id \/ l.context.pest # p) =>
                          score_method(methods[i],
                              logs_for_method(logs', methods[i].id, p))
                          = score_method(methods[i],
                              logs_for_method(logs, methods[i].id, p))
                /\ (l.method_id \notin RegisteredIds \/ l.context.pest # p) =>
                      \A loc \in LocationType :
                          /\ tier0_exclusion_hygiene(methods, logs', p, loc)
                             = tier0_exclusion_hygiene(methods, logs, p, loc)
                          /\ \A r \in MaxRInputs :
                                query_safest_methods(methods, logs', p, loc, r)
                                = query_safest_methods(methods, logs, p, loc, r)
       /\ (call.op = "none" /\ call'.op = "query_safest_methods") =>
            /\ methods' = methods /\ logs' = logs
            /\ out' = query_safest_methods(methods, MatchingLogs(call'.pest),
                           call'.pest, call'.location, call'.max_r)
       /\ (call.op = "none" /\ call'.op = "tier0_exclusion_hygiene") =>
            /\ methods' = methods /\ logs' = logs
            /\ out' = tier0_exclusion_hygiene(methods, MatchingLogs(call'.pest),
                           call'.pest, call'.location)
      ]_vars

(* a query for pest X on a registry whose first log is of the returned
   method and of pest X and whose second log, appended after it, is of no
   registered method: the entry is scored on the first log alone (K = 0.4)
   and the result is that of the registry without the second log *)
C13_Witness ==
    /\ call.op = "query_safest_methods"
    /\ call.pest = "X"
    /\ Len(logs) = 2
    /\ logs[1].method_id \in RegisteredIds /\ logs[1].context.pest = "X"
    /\ logs[2].method_id \notin RegisteredIds /\ logs[2].context.pest = "X"
    /\ Len(out) = 1
    /\ out[1].method.id = logs[1].method_id
    /\ out[1].ker.k = Rat(4, 10)
    /\ out = query_safest_methods(methods, SubSeq(logs, 1, 1), call.pest,
                                  call.location, call.max_r)
    /\ Len(methods) = 1

(* ---------------------------------------------------------------------- *)
(* deadbugs-guard/src/pest_plan_guard.rs                                   *)
(* residual_v and v_max are integers in units of 1e-9                      *)
(* ---------------------------------------------------------------------- *)
Tolerance == 1

MaxResiduals == 4
ResidualInputs == {0, 1, 2, 3}
VMaxInputs == {1, 2}

RECURSIVE SeqsUpTo(_, _)
SeqsUpTo(S, k) ==
    IF k = 0 THEN {<<>>}
    ELSE LET shorter == SeqsUpTo(S, k - 1)
         IN shorter \cup {Append(q, x) : q \in shorter, x \in S}

GuardInputs ==
    [sim : [state : [residual_v : SeqsUpTo(ResidualInputs, MaxResiduals)],
            violated_hard_limit : BOOLEAN],
     cfg : [v_max : VMaxInputs,
            require_v_nonincrease : BOOLEAN,
            require_all_below_max : BOOLEAN]]

(* the loop over vt.windows(2) examines only the first window *)
v_noninc_first_window(vt, cfg) ==
    IF Len(vt) < 2 THEN TRUE
    ELSE ~(cfg.require_v_nonincrease /\ vt[2] > vt[1] + Tolerance)

(* pest_plan_guard.rs 27-38: the loop over vt.windows(2), left at the first
   rising pair *)
RECURSIVE v_noninc(_, _)
v_noninc(vt, cfg) ==
    IF Len(vt) < 2 THEN TRUE
    ELSE IF cfg.require_v_nonincrease /\ vt[2] > vt[1] + Tolerance THEN FALSE
    ELSE v_noninc(Tail(vt), cfg)

(* pest_plan_guard.rs 28, 40-47 *)
RECURSIVE any_above(_, _)
any_above(vt, v_max) ==
    IF vt = <<>> THEN FALSE
    ELSE IF Head(vt) > v_max THEN TRUE
    ELSE any_above(Tail(vt), v_max)

v_exceeded(vt, cfg) ==
    IF cfg.require_all_below_max THEN any_above(vt, cfg.v_max) ELSE FALSE

(* corridor_safe without the test of v_exceeded *)
corridor_safe_no_max(hard_violation, noninc, exceeded) ==
    ~hard_violation /\ noninc

(* pest_plan_guard.rs 49 *)
corridor_safe(hard_violation, noninc, exceeded) ==
    ~hard_violation /\ noninc /\ ~exceeded

evaluate_plan_guard(s, cfg) ==
    LET hard_violation == s.violated_hard_limit
        vt == s.state.residual_v
        noninc == v_noninc(vt, cfg)
        exceeded == v_exceeded(vt, cfg)
    IN [corridor_safe |-> corridor_safe(hard_violation, noninc, exceeded),
        hard_limit_violated |-> hard_violation,
        v_nonincreasing |-> noninc,
        v_exceeded_max |-> exceeded]

RegIdle == new

GuardInit ==
    /\ RegIdle /\ SimIdle
    /\ gargs \in GuardInputs
    /\ verdict = <<>>

Evaluate ==
    /\ gargs # <<>>
    /\ verdict = <<>>
    /\ verdict' = <<evaluate_plan_guard(gargs.sim, gargs.cfg)>>
    /\ UNCHANGED <<gargs, regvars, simvars>>

GuardNext == Evaluate

GuardSpec == GuardInit /\ [][GuardNext]_vars

(* C4: the verdict has corridor_safe <=> (~hard_limit_violated /\
   v_nonincreasing /\ ~v_exceeded_max), and hard_limit_violated is the
   simulation result's violated_hard_limit bit. *)
C4_CorridorSafeIffAllThree ==
    verdict # <<>> =>
        /\ verdict[1].corridor_safe <=>
              (/\ ~verdict[1].hard_limit_violated
               /\ verdict[1].v_nonincreasing
               /\ ~verdict[1].v_exceeded_max)
        /\ verdict[1].hard_limit_violated = gargs.sim.violated_hard_limit

(* the only failing predicate is v_exceeded_max *)
C4_Witness ==
    /\ verdict # <<>>
    /\ ~verdict[1].corridor_safe
    /\ ~verdict[1].hard_limit_violated
    /\ verdict[1].v_nonincreasing
    /\ verdict[1].v_exceeded_max

(* C5: v_nonincreasing is false exactly when require_v_nonincrease is set and
   some adjacent pair of residual_v, at any position, has
   V_{t+1} > V_t + 1e-9; it is true otherwise, also for length 0 and 1. *)
RisingPair(vt) ==
    \E t \in 1..(Len(vt) - 1) : vt[t + 1] > vt[t] + Tolerance

C5_NonIncreasingIffNoRisingPair ==
    verdict # <<>> =>
        (~verdict[1].v_nonincreasing <=>
            (/\ gargs.cfg.require_v_nonincrease
             /\ RisingPair(gargs.sim.state.residual_v)))

(* a rebound after two non-increasing pairs, one of them rising by exactly
   the tolerance *)
C5_Witness ==
    /\ verdict # <<>>
    /\ ~verdict[1].v_nonincreasing
    /\ LET vt == gargs.sim.state.residual_v
       IN /\ Len(vt) = 4
          /\ vt[2] = vt[1] + Tolerance
          /\ vt[3] <= vt[2]
          /\ vt[4] > vt[3] + Tolerance

(* ---------------------------------------------------------------------- *)
(* deadbugs-pest-kernel/src/pest_risk_simulator.rs                         *)
(* ---------------------------------------------------------------------- *)
MaxHorizon == 3
MaxActions == 1

(* cos(angle) of seasonality_factor is not computed: each day it is some
   value of CosValues, a subset of the range [-1, 1] of cos *)
CosValues == {Rat(-1, 1), One}

ActionInputs ==
    [intensity : {Rat(1, 2), Rat(2, 1)},
     arrival_reduction_frac : {One},
     repro_reduction_frac : {Zero},
     damage_reduction_frac : {One},
     eco_disturbance_score : {One}]

SimInputs ==
    [ctx : [human_proximity : {Rat(-1, 1), Rat(1, 2), Rat(2, 1)},
            animal_proximity : {One},
            food_availability : {One},
            water_availability : {One},
            harborage_quality : {Rat(2, 1)}],
     species : [base_arrival_rate : {Rat(-2, 1), Zero, One},
                base_repro_rate : {Rat(-1, 1), One},
                seasonality_amp : {Zero, One},
                damage_sensitivity : {Rat(-1, 1), One},
                eco_sensitivity : {One},
                abundance_hard_limit : {Rat(1, 2), Rat(2, 1)},
                damage_hard_limit : {Rat(1, 2)},
                eco_hard_limit : {Rat(1, 2)}],
     plan : [actions : SeqsUpTo(ActionInputs, MaxActions),
             horizon_days : 0..MaxHorizon],
     cfg : [w_pest : {Rat(1, 2)}, w_damage : {Rat(1, 4)}, w_eco : {Rat(1, 4)},
            r_pest_max : {Rat(1, 4), One},
            r_damage_max : {Rat(1, 2), One},
            r_eco_max : {Rat(1, 2), One}]]

(* f64::clamp(lo, hi) *)
f64_clamp(x, lo, hi) == IF RLt(x, lo) THEN lo ELSE IF RGt(x, hi) THEN hi ELSE x

sim_clamp01(x) == IF RLe(x, Zero) THEN Zero ELSE IF RGe(x, One) THEN One ELSE x

seasonality_factor(amp, cos_angle) ==
    IF RLe(amp, Zero) THEN One ELSE RAdd(One, RMul(amp, cos_angle))

(* the horizon taken as given *)
horizon_unfloored(plan) == plan.horizon_days

(* pest_risk_simulator.rs 118 *)
horizon_of(plan) == IF plan.horizon_days > 1 THEN plan.horizon_days ELSE 1

(* pest_risk_simulator.rs 134-146: the loop over plan.actions *)
RECURSIVE control_effects(_)
control_effects(actions) ==
    IF actions = <<>>
    THEN [arrival_mult |-> One, repro_mult |-> One, damage_mult |-> One,
          eco_base |-> Zero]
    ELSE LET a == actions[Len(actions)]
             acc == control_effects(SubSeq(actions, 1, Len(actions) - 1))
             f == f64_clamp(a.intensity, Zero, One)
         IN [arrival_mult |->
                RMul(acc.arrival_mult,
                     RSub(One, RMul(f, f64_clamp(a.arrival_reduction_frac, Zero, One)))),
             repro_mult |->
                RMul(acc.repro_mult,
                     RSub(One, RMul(f, f64_clamp(a.repro_reduction_frac, Zero, One)))),
             damage_mult |->
                RMul(acc.damage_mult,
                     RSub(One, RMul(f, f64_clamp(a.damage_reduction_frac, Zero, One)))),
             eco_base |->
                RAdd(acc.eco_base,
                     RMul(f, f64_clamp(a.eco_disturbance_score, Zero, One)))]

(* pest_risk_simulator.rs 155-161 *)
risk_coordinate(x, hard_limit) ==
    sim_clamp01(RMin(RDiv(x, RMax(hard_limit, One)), One))

(* pest_risk_simulator.rs 173 *)
exceeds_hard_limit(r_p, r_d, r_e, cfg) ==
    \/ RGt(r_p, cfg.r_pest_max)
    \/ RGt(r_d, cfg.r_damage_max)
    \/ RGt(r_e, cfg.r_eco_max)

(* the bit follows the current day *)
latch_overwritten(violated_hard, exceeded) == exceeded

(* pest_risk_simulator.rs 173-175 *)
latch(violated_hard, exceeded) == IF exceeded THEN TRUE ELSE violated_hard

(* the update of n_t without the floor at 0 *)
n_next_unfloored(n_t, r_eff, lambda_t, hard_limit) ==
    LET growth == RMul(RMul(r_eff, n_t),
                       RSub(One, RDiv(n_t, RMax(hard_limit, One))))
    IN RAdd(RAdd(n_t, growth), lambda_t)

(* pest_risk_simulator.rs 191-192 *)
n_next(n_t, r_eff, lambda_t, hard_limit) ==
    LET growth == RMul(RMul(r_eff, n_t),
                       RSub(One, RDiv(n_t, RMax(hard_limit, One))))
    IN RMax(RAdd(RAdd(n_t, growth), lambda_t), Zero)

(* the update of d_t without the floor of the increment at 0 *)
d_next_unfloored(d_t, n_t, species, ctx, damage_mult) ==
    LET damage_increment ==
            RMul(RMul(RMul(n_t, species.damage_sensitivity),
                      f64_clamp(ctx.human_proximity, Zero, One)),
                 damage_mult)
    IN RAdd(d_t, damage_increment)

(* pest_risk_simulator.rs 195-199 *)
d_next(d_t, n_t, species, ctx, damage_mult) ==
    LET damage_increment ==
            RMul(RMul(RMul(n_t, species.damage_sensitivity),
                      f64_clamp(ctx.human_proximity, Zero, One)),
                 damage_mult)
    IN RAdd(d_t, RMax(damage_increment, Zero))

(* pest_risk_simulator.rs 202-205 *)
e_next(e_t, species, ctx, eco_base) ==
    LET eco_increment ==
            RDiv(RMul(RMul(eco_base, species.eco_sensitivity),
                      RAdd(f64_clamp(ctx.animal_proximity, Zero, One),
                           f64_clamp(ctx.human_proximity, Zero, One))),
                 Rat(2, 1))
    IN RMin(RAdd(e_t, RMax(eco_increment, Zero)),
            RMax(species.eco_hard_limit, One))

EmptyState ==
    [times_days |-> <<>>, abundance |-> <<>>, damage_metric |-> <<>>,
     eco_metric |-> <<>>, r_pest |-> <<>>, r_damage |-> <<>>, r_eco |-> <<>>,
     residual_v |-> <<>>]

(* pest_risk_simulator.rs 151-175: the first half of the loop body *)
emit_day(s, species, cfg) ==
    LET r_p == risk_coordinate(s.n_t, species.abundance_hard_limit)
        r_d == risk_coordinate(s.d_t, species.damage_hard_limit)
        r_e == risk_coordinate(s.e_t, species.eco_hard_limit)
        v_t == RAdd(RAdd(RMul(cfg.w_pest, r_p), RMul(cfg.w_damage, r_d)),
                    RMul(cfg.w_eco, r_e))
    IN [s EXCEPT
          !.state = [times_days |-> Append(s.state.times_days, s.day),
                     abundance |-> Append(s.state.abundance, s.n_t),
                     damage_metric |-> Append(s.state.damage_metric, s.d_t),
                     eco_metric |-> Append(s.state.eco_metric, s.e_t),
                     r_pest |-> Append(s.state.r_pest, r_p),
                     r_damage |-> Append(s.state.r_damage, r_d),
                     r_eco |-> Append(s.state.r_eco, r_e),
                     residual_v |-> Append(s.state.residual_v, v_t)],
          !.violated_hard =
              latch(s.violated_hard, exceeds_hard_limit(r_p, r_d, r_e, cfg))]

(* pest_risk_simulator.rs 181-209: the second half of the loop body *)
update_dynamics(s, ctx, species, cos_angle) ==
    LET season == seasonality_factor(species.seasonality_amp, cos_angle)
        lambda_t ==
            RMul(RMul(RMul(RMul(species.base_arrival_rate, s.arrival_mult),
                           season),
                      f64_clamp(ctx.food_availability, Zero, One)),
                 f64_clamp(ctx.harborage_quality, Zero, One))
        r_eff == RMul(RMul(species.base_repro_rate, s.repro_mult),
                      f64_clamp(ctx.water_availability, Zero, One))
    IN [s EXCEPT
          !.n_t = n_next(s.n_t, r_eff, lambda_t, species.abundance_hard_limit),
          !.d_t = d_next(s.d_t, s.n_t, species, ctx, s.damage_mult),
          !.e_t = e_next(s.e_t, species, ctx, s.eco_base),
          !.day = s.day + 1]

SimInit ==
    /\ RegIdle /\ GuardIdle
    /\ args \in SimInputs
    /\ sim = [pc |-> "start"]

(* pest_risk_simulator.rs 118-148: everything in front of the day loop *)
Prepare ==
    /\ sim.pc = "start"
    /\ LET c == control_effects(args.plan.actions)
       IN sim' = [pc |-> "loop",
                  horizon |-> horizon_of(args.plan),
                  state |-> EmptyState,
                  n_t |-> One, d_t |-> Zero, e_t |-> Zero,
                  arrival_mult |-> c.arrival_mult,
                  repro_mult |-> c.repro_mult,
                  damage_mult |-> c.damage_mult,
                  eco_base |-> c.eco_base,
                  violated_hard |-> FALSE,
                  day |-> 0]
    /\ UNCHANGED <<args, regvars, guardvars>>

(* one iteration of the loop for a day in front of the horizon *)
DayStep(cos_angle) ==
    /\ sim.pc = "loop"
    /\ sim.day # sim.horizon
    /\ sim' = update_dynamics(emit_day(sim, args.species, args.cfg),
                              args.ctx, args.species, cos_angle)
    /\ UNCHANGED <<args, regvars, guardvars>>

(* the iteration for day = horizon: it leaves the loop at line 177, and the
   function returns state and violated_hard *)
LastDay ==
    /\ sim.pc = "loop"
    /\ sim.day = sim.horizon
    /\ sim' = [emit_day(sim, args.species, args.cfg) EXCEPT !.pc = "done"]
    /\ UNCHANGED <<args, regvars, guardvars>>

SimNext ==
    \/ Prepare
    \/ \E c \in CosValues : DayStep(c)
    \/ LastDay

SimSpec == SimInit /\ [][SimNext]_vars

(* ---------------------------------------------------------------------- *)
(* Properties of the simulator                                             *)
(* ---------------------------------------------------------------------- *)
Running == sim.pc \in {"loop", "done"}
Done == sim.pc = "done"
Emitted == 1..Len(sim.state.r_pest)

DayExceeds(t) ==
    \/ RGt(sim.state.r_pest[t], args.cfg.r_pest_max)
    \/ RGt(sim.state.r_damage[t], args.cfg.r_damage_max)
    \/ RGt(sim.state.r_eco[t], args.cfg.r_eco_max)

(* C6: violated_hard_limit is true iff some emitted day 0..H, day 0 and day H
   included, has a risk coordinate above its ceiling; the equivalence holds
   after every iteration of the day loop, so a later day within limits does
   not clear the bit. *)
C6_ViolatedIffSomeDayExceeds ==
    Running => (sim.violated_hard <=> \E t \in Emitted : DayExceeds(t))

(* day 0 is the only day above a ceiling and the returned bit is set *)
C6_Witness ==
    /\ Done
    /\ sim.violated_hard
    /\ DayExceeds(1)
    /\ Len(sim.state.r_pest) >= 3
    /\ \A t \in Emitted : t > 1 => ~DayExceeds(t)

ArrayLengths ==
    {Len(sim.state.abundance), Len(sim.state.damage_metric),
     Len(sim.state.eco_metric), Len(sim.state.r_pest),
     Len(sim.state.r_damage), Len(sim.state.r_eco),
     Len(sim.state.residual_v)}

(* C7 as stated: the seven arrays have length horizon_days + 1, which is 1
   for horizon_days = 0. *)
C7_LengthIsHorizonDaysPlusOne ==
    Done => ArrayLengths = {args.plan.horizon_days + 1}

(* C7 as amended: the seven arrays of the result have length
   max(1, horizon_days) + 1; for horizon_days = 0 the horizon is floored to 1
   and the simulator emits days 0 and 1, so every array has length 2. *)
C7_LengthIsFlooredHorizonPlusOne ==
    Done =>
        /\ ArrayLengths =
              {(IF args.plan.horizon_days >= 1
                THEN args.plan.horizon_days ELSE 1) + 1}
        /\ args.plan.horizon_days = 0 => ArrayLengths = {2}

(* a finished simulation of a plan with horizon_days = 0 *)
C7_Witness ==
    /\ Done
    /\ args.plan.horizon_days = 0
    /\ sim.state.times_days = <<0, 1>>

(* C8: at every emitted day r_pest, r_damage and r_eco lie in [0, 1] and the
   abundance is >= 0, for all inputs, negative rates, proximity scalars
   outside [0, 1] and hard limits below 1 included. *)
InUnit(x) == RLe(Zero, x) /\ RLe(x, One)

C8_RisksInUnitAbundanceNonNegative ==
    Running =>
        /\ \A t \in Emitted :
              /\ InUnit(sim.state.r_pest[t])
              /\ InUnit(sim.state.r_damage[t])
              /\ InUnit(sim.state.r_eco[t])
              /\ RGe(sim.state.abundance[t], Zero)
        /\ RGe(sim.n_t, Zero)

(* a negative arrival rate has driven the abundance to the floor 0, with a
   proximity scalar outside [0, 1] and an abundance hard limit below 1 *)
C8_Witness ==
    /\ Done
    /\ RLt(args.species.base_arrival_rate, Zero)
    /\ RLt(args.species.abundance_hard_limit, One)
    /\ RGt(args.ctx.human_proximity, One)
    /\ Len(sim.state.abundance) >= 3
    /\ sim.state.abundance[3] = Zero
    /\ sim.state.r_damage[3] = One

(* C9: the accumulated damage starts at 0 and never decreases from one day
   to the next, also with a negative damage_sensitivity. *)
C9_DamageNonDecreasing ==
    Running =>
        /\ \A t \in Emitted :
              t + 1 \in Emitted =>
                 RGe(sim.state.damage_metric[t + 1], sim.state.damage_metric[t])
        /\ Emitted # {} => sim.state.damage_metric[1] = Zero
        /\ Emitted # {} =>
              RGe(sim.d_t, sim.state.damage_metric[Len(sim.state.damage_metric)])

(* a finished run with negative damage_sensitivity, people present and no
   mitigation: the raw increment is negative every day and the damage stays
   where it was *)
C9_Witness ==
    /\ Done
    /\ RLt(args.species.damage_sensitivity, Zero)
    /\ RGt(args.ctx.human_proximity, Zero)
    /\ args.plan.actions = <<>>
    /\ Len(sim.state.damage_metric) >= 3
    /\ RGt(sim.state.abundance[1], Zero)
    /\ sim.state.damage_metric[3] = sim.state.damage_metric[1]

(* ---------------------------------------------------------------------- *)
(* score_method on its own and under the two queries: a registry that      *)
(* holds one method and up to MaxScoreLogs logs of that method             *)
(* ---------------------------------------------------------------------- *)
MaxScoreLogs == 2

ScoreMethodInputs ==
    [id : {"a"}, family : {"Exclusion", "MechanicalKill"},
     uses_disposable_electronics : {FALSE},
     generates_persistent_plastic : {FALSE}]
    \cup
    {[id |-> "a", family |-> "Exclusion",
      uses_disposable_electronics |-> TRUE,
      generates_persistent_plastic |-> FALSE],
     [id |-> "a", family |-> "Exclusion",
      uses_disposable_electronics |-> FALSE,
      generates_persistent_plastic |-> TRUE]}

ScoreLogInputs ==
    {[method_id |-> "a", context |-> [pest |-> "X"], effectiveness |-> q[1],
      side_effects |-> [pet_incident |-> pet, wildlife_incident |-> wild,
                        human_injury |-> hum, air_quality_concern |-> q[2],
                        waste_burden |-> q[3]]] :
        pet \in BOOLEAN, wild \in BOOLEAN, hum \in BOOLEAN,
        q \in {<<"High", FALSE, "none">>, <<"Low", TRUE, "high">>,
               <<"Medium", FALSE, "moderate">>}}

ScoreInit ==
    /\ \E m \in ScoreMethodInputs : methods = <<m>>
    /\ logs \in SeqsUpTo(ScoreLogInputs, MaxScoreLogs)
    /\ call = NoCall
    /\ out = <<>>
    /\ score = <<>>
    /\ SimIdle /\ GuardIdle

(* a direct call of score_method(method, logs) *)
Score ==
    /\ call.op = "none"
    /\ call' = [NoCall EXCEPT !.op = "score_method"]
    /\ score' = <<score_method(methods[1], logs)>>
    /\ UNCHANGED <<methods, logs, out, simvars, guardvars>>

ScoreNext ==
    \/ Score
    \/ QuerySafest("X", "Other", One)
    \/ Tier0("X", "Other")
    \/ Return

ScoreSpec == ScoreInit /\ [][ScoreNext]_vars

(* the log list is non-empty and every log has the side effect set *)
EveryLog(effect) ==
    logs # <<>> /\ \A i \in 1..Len(logs) : logs[i].side_effects[effect]

(* C10: hard_violation is set exactly when r_pets >= 1 or r_human_injury >= 1
   or r_wildlife >= 1, that is exactly when the scored logs are non-empty and
   every log has pet_incident, or every log has human_injury, or every log
   has wildlife_incident (waste burden, air quality and the method's waste
   flags never set it); a method with hard_violation, in particular one whose
   logs all record human_injury, is in the result of neither query. *)
C10_HardViolationIffProtectedCorridorFull ==
    /\ call.op = "score_method" =>
          /\ score[1].hard_violation <=>
                (\/ RGe(score[1].coords.r_pets, One)
                 \/ RGe(score[1].coords.r_human_injury, One)
                 \/ RGe(score[1].coords.r_wildlife, One))
          /\ score[1].hard_violation <=>
                (\/ EveryLog("pet_incident")
                 \/ EveryLog("wildlife_incident")
                 \/ EveryLog("human_injury"))
    /\ call.op \in {"query_safest_methods", "tier0_exclusion_hygiene"} =>
          /\ EveryLog("human_injury") => out = <<>>
          /\ OwnScore(methods[1], call.pest).hard_violation => out = <<>>

(* two logs, both with human_injury and an air quality concern and high
   waste, only one with a pet incident: the score has the hard violation *)
C10_Witness ==
    /\ call.op = "score_method"
    /\ Len(logs) = 2
    /\ EveryLog("human_injury")
    /\ EveryLog("air_quality_concern")
    /\ logs[1].side_effects.pet_incident
    /\ ~logs[2].side_effects.pet_incident
    /\ score[1].hard_violation
    /\ score[1].coords.r_human_injury = One

(* ---------------------------------------------------------------------- *)
(* score_method over every control family and every combination of the    *)
(* two material flags: a registry that holds one method and up to          *)
(* MaxFamilyLogs logs, of the queried pest X or of the other pest          *)
(* ---------------------------------------------------------------------- *)
MaxFamilyLogs == 1

FamilyMethodInputs ==
    [id : {"a"}, family : ControlFamily,
     uses_disposable_electronics : BOOLEAN,
     generates_persistent_plastic : BOOLEAN]

FamilyLogInputs ==
    {[method_id |-> "a", context |-> [pest |-> "X"], effectiveness |-> "High",
      side_effects |-> Benign],
     [method_id |-> "a", context |-> [pest |-> "Y"], effectiveness |-> "Low",
      side_effects |-> [Benign EXCEPT !.air_quality_concern = TRUE,
                                      !.waste_burden = "high"]]}

FamilyInit ==
    /\ \E m \in FamilyMethodInputs : methods = <<m>>
    /\ logs \in SeqsUpTo(FamilyLogInputs, MaxFamilyLogs)
    /\ call = NoCall
    /\ out = <<>>
    /\ score = <<>>
    /\ SimIdle /\ GuardIdle

FamilySpec == FamilyInit /\ [][ScoreNext]_vars

(* family base in hundredths *)
BaseHundredths(family) ==
    CASE family = "Exclusion" -> 95
      [] family = "Sanitation" -> 93
      [] family = "HabitatChange" -> 90
      [] family = "PredatorSupport" -> 88
      [] family = "MechanicalKill" -> 80
      [] family = "LiveCapture" -> 78
      [] family = "MonitoringOnly" -> 70

(* clamp01(family base - 0.15*[uses_disposable_electronics]
                       - 0.10*[generates_persistent_plastic]) *)
ZeroLogE(m) ==
    LET h == BaseHundredths(m.family)
             - (IF m.uses_disposable_electronics THEN 15 ELSE 0)
             - (IF m.generates_persistent_plastic THEN 10 ELSE 0)
    IN Rat(IF h < 0 THEN 0 ELSE IF h > 100 THEN 100 ELSE h, 100)

ZeroLogScore(ker) ==
    /\ ker.k = Rat(1, 10)
    /\ ker.coords.r_pets = Zero
    /\ ker.coords.r_wildlife = Zero
    /\ ker.coords.r_waste = Zero
    /\ ker.coords.r_air = Zero
    /\ ker.coords.r_human_injury = Zero
    /\ ker.r = Zero
    /\ ~ker.hard_violation

(* C11: a method scored against an empty log list gets K = 0.1, all five risk
   coordinates 0 (r_waste too, whatever the method's waste flags), R = 0, no
   hard violation and E = clamp01(family base - 0.15*[electronics]
   - 0.10*[plastic]); this holds for a direct call of score_method with no
   logs and for the score a query computes for a method none of whose logs
   is of the queried pest (tier0_exclusion_hygiene carries that E as it is). *)
C11_ZeroLogsScore ==
    /\ (call.op = "score_method" /\ logs = <<>>) =>
          /\ ZeroLogScore(score[1])
          /\ score[1].e = ZeroLogE(methods[1])
    /\ (/\ call.op \in {"query_safest_methods", "tier0_exclusion_hygiene"}
        /\ logs_for_method(logs, methods[1].id, call.pest) = <<>>) =>
          /\ ZeroLogScore(OwnScore(methods[1], call.pest))
          /\ OwnScore(methods[1], call.pest).e = ZeroLogE(methods[1])
          /\ \A i \in 1..Len(out) :
                /\ ZeroLogScore(out[i].ker)
                /\ call.op = "tier0_exclusion_hygiene" =>
                       out[i].ker.e = ZeroLogE(out[i].method)

(* score_method was called with no logs on a method with both waste flags
   set: r_waste is 0 and E is 0.88 - 0.25 = 0.63 *)
C11_Witness ==
    /\ call.op = "score_method"
    /\ logs = <<>>
    /\ methods[1].family = "PredatorSupport"
    /\ methods[1].uses_disposable_electronics
    /\ methods[1].generates_persistent_plastic
    /\ score[1].coords.r_waste = Zero
    /\ score[1].k = Rat(1, 10)
    /\ score[1].e = Rat(63, 100)

====
